---- MODULE Spec2Model ----
(***************************************************************************)
(* Offline test-execution and result-upload workflow of                    *)
(* hbp_validation_framework/utils.py:                                      *)
(*   prepare_run_test_offline -> run_test_offline -> upload_test_result,   *)
(* and run_test, which chains the three.                                   *)
(*                                                                         *)
(* Every function of utils.py is an operator over a "world" record         *)
(* (local files, remote catalog, clock, event trace) that returns the new  *)
(* world together with the exception raised or the value returned, so      *)
(* that run_test is the composition the source writes.  What the           *)
(* environment decides (whether authentication is granted, whether a       *)
(* catalog request fails, what the test's judge returns and how long it    *)
(* takes) is an argument `env` of each operator, chosen by the actions.    *)
(***************************************************************************)
EXTENDS Integers, Sequences, FiniteSets, TLC

VARIABLES
    fs,               \* local filesystem: path -> file content
    results,          \* remote catalog: registered results, in registration order
    model_instances,  \* remote catalog: registered model instance ids
    models,           \* remote catalog: models registered by the caller, id -> entry
    now,              \* wall clock, in ticks
    seed,             \* string-hash seed of the running interpreter process
    calls,            \* number of top-level calls made so far
    last,             \* the most recent top-level call: its steps, exception, return
    returned_ids      \* history: the result identifiers returned to callers so far

vars == <<fs, results, model_instances, models, now, seed, calls, last, returned_ids>>

-----------------------------------------------------------------------------
(* Bounds of the model *)

MaxTime == 2        \* the clock stops at this tick
MaxCalls == 2       \* top-level calls in a behaviour
MaxJudge == 1       \* longest test execution, in ticks
MaxSeed == 1        \* hash seeds 0..MaxSeed (0: hash randomisation off)

TicksPerSecond == 2 \* clock resolution of the model: ticks in one second

-----------------------------------------------------------------------------
(* Values *)

None == "None"

\* Exceptions are records (class raised, message, identifiers named in it).
NoExc == [cls |-> "", msg |-> "", ids |-> <<>>]

Exc(cls, msg) == [cls |-> cls, msg |-> msg, ids |-> <<>>]

NoTestIdError ==
    Exc("Exception", "test_instance_id or test_id or test_alias needs to be provided for finding test.")

ConfigNotFoundError ==
    Exc("Exception", "'test_config_file' should direct to file describing the test configuration.")

ResultNotFoundError ==
    Exc("Exception", "'test_result_file' should direct to file containg the test result data.")

ModelTypeError == Exc("TypeError", "model is not a sciunit Model!")

DuplicateResultError(duplicate_results) ==
    [cls |-> "Exception",
     msg |-> "An identical result has already been registered on the validation framework. Existing Result UUID = ",
     ids |-> duplicate_results]

\* URI_SCHEME_MAP[scheme] on a scheme that is no key of the table
UnsupportedSchemeError(scheme) == Exc("KeyError", scheme)

\* raised by the client constructor when the authentication server refuses
AuthenticationError == Exc("Exception", "authentication refused")

\* raised by a catalog request that fails
CatalogError(request) == Exc("Exception", request)

\* raised by the test implementation inside judge(deep_error=True)
TestExecutionError == Exc("RuntimeError", "raised by the test implementation")

Raise(w, e) == [w |-> w, exc |-> e, ret |-> None]

Return(w, r) == [w |-> w, exc |-> NoExc, ret |-> r]

Emit(w, ev) == [w EXCEPT !.trace = Append(@, ev)]

-----------------------------------------------------------------------------
(* The remote catalog: what the client library's requests answer.          *)

\* test definitions of the catalog: id -> alias and data location
TestDefinitions ==
    [t \in {"T1", "T2"} |->
        IF t = "T1"
        THEN [alias |-> "CDT-5", scheme |-> "https", file |-> "obs.json"]
        ELSE [alias |-> "FTP-1", scheme |-> "ftp", file |-> "obs.dat"]]

\* test instances of the catalog: id -> definition, version, class path
TestInstances ==
    [i \in {"TI1", "TI2", "TI3"} |->
        CASE i = "TI1" -> [test_definition_id |-> "T1", version |-> "4.0", timestamp |-> 1, path |-> "tests.CA1Test"]
          [] i = "TI2" -> [test_definition_id |-> "T1", version |-> "5.0", timestamp |-> 2, path |-> "tests.CA1Test"]
          [] i = "TI3" -> [test_definition_id |-> "T2", version |-> "1.0", timestamp |-> 1, path |-> "tests.FtpTest"]]

\* the models of the catalog: model name -> model id and host collab
Models ==
    [m \in {"hippoCircuit", "cerebellum"} |->
        IF m = "hippoCircuit"
        THEN [id |-> "M1", collab_id |-> "collab-1", instance |-> "MI1"]
        ELSE [id |-> "M2", collab_id |-> "collab-2", instance |-> "MI2"]]

\* schemes with a datastore implementation
URI_SCHEME_MAP == {"collab", "http", "https", "swift"}

TestInstanceJson(i) ==
    [id |-> i,
     test_definition_id |-> TestInstances[i].test_definition_id,
     path |-> TestInstances[i].path,
     version |-> TestInstances[i].version]

\* instances of a test definition with the given version ("" : the latest)
InstancesOf(test_id, version) ==
    LET all == {i \in DOMAIN TestInstances : TestInstances[i].test_definition_id = test_id}
    IN IF version = ""
       THEN {i \in all : \A j \in all : TestInstances[j].timestamp <= TestInstances[i].timestamp}
       ELSE {i \in all : TestInstances[i].version = version}

\* a client construction that authenticates with username and password even
\* when it is given a client_obj
NewClient_Authenticates(w, client_obj, env) ==
    IF env.auth
    THEN Return(Emit(w, "authenticate"), "client")
    ELSE Raise(Emit(w, "authenticate"), AuthenticationError)

\* TestLibrary(username, password) authenticates; from_existing(client_obj) does not
NewClient(w, client_obj, env) ==
    IF client_obj # None
    THEN Return(Emit(w, "from_existing"), client_obj)
    ELSE IF env.auth
         THEN Return(Emit(w, "authenticate"), "client")
         ELSE Raise(Emit(w, "authenticate"), AuthenticationError)

get_test_instance(w, instance_id, test_id, alias, version, env) ==
    LET w1 == Emit(w, "get_test_instance")
        found ==
            IF instance_id # ""
            THEN {i \in DOMAIN TestInstances : i = instance_id}
            ELSE IF test_id # ""
                 THEN InstancesOf(test_id, version)
                 ELSE UNION {InstancesOf(t, version) :
                                t \in {d \in DOMAIN TestDefinitions : TestDefinitions[d].alias = alias}}
    IN IF env.fail = "get_test_instance" \/ Cardinality(found) # 1
       THEN Raise(w1, CatalogError("get_test_instance"))
       ELSE Return(w1, TestInstanceJson(CHOOSE i \in found : TRUE))

get_test_definition(w, test_id, env) ==
    LET w1 == Emit(w, "get_test_definition")
    IN IF env.fail = "get_test_definition" \/ test_id \notin DOMAIN TestDefinitions
       THEN Raise(w1, CatalogError("get_test_definition"))
       ELSE Return(w1, [id |-> test_id,
                        alias |-> TestDefinitions[test_id].alias,
                        data_location |-> [scheme |-> TestDefinitions[test_id].scheme,
                                           file |-> TestDefinitions[test_id].file]])

-----------------------------------------------------------------------------
(* The local filesystem: a function from paths to contents.  A path is the *)
(* folder <<test id, timestamp>> under <cwd>/hbp_validation_framework, the *)
(* subdirectory in it ("" or "results") and the file name; a directory is  *)
(* the entry with the empty name.                                          *)

Path(base_folder, sub, name) == [folder |-> base_folder, sub |-> sub, name |-> name]

Directory(base_folder, sub) == Path(base_folder, sub, <<"", "", 0>>)

FileIn(base_folder, basename) == Path(base_folder, "", <<basename, "", 0>>)

\* a path under no folder the workflow creates
MissingPath == Path(<<"", 0>>, "", <<"missing", "", 0>>)

isfile(files, p) == p \in DOMAIN files /\ files[p].kind # "dir"

Put(files, p, content) ==
    [q \in DOMAIN files \cup {p} |-> IF q = p THEN content ELSE files[q]]

\* Path(...).mkdir(parents=True, exist_ok=True)
mkdir(files, base_folder, sub) ==
    LET top == IF Directory(base_folder, "") \in DOMAIN files
               THEN files ELSE Put(files, Directory(base_folder, ""), [kind |-> "dir"])
    IN IF Directory(base_folder, sub) \in DOMAIN top
       THEN top ELSE Put(top, Directory(base_folder, sub), [kind |-> "dir"])

\* datastore.download_data([url], local_directory): the local paths written
download_data(w, data_location, local_directory, env) ==
    LET w1 == Emit(w, "download_data")
        p == FileIn(local_directory, data_location.file)
    IN IF env.fail = "download_data"
       THEN Raise(w1, CatalogError("download_data"))
       ELSE Return([w1 EXCEPT !.fs = Put(mkdir(@, local_directory, ""), p,
                                        [kind |-> "observation", location |-> data_location])],
                   <<p>>)

-----------------------------------------------------------------------------
(* Clock and timestamps *)

\* strftime("%Y%m%d-%H%M%S"): the instant cut to whole seconds
strftime(t) == t \div TicksPerSecond

\* str(datetime): the fraction of a second is printed only when it is not zero
StrDatetime(t) ==
    IF t % TicksPerSecond = 0
    THEN <<t \div TicksPerSecond>>
    ELSE <<t \div TicksPerSecond, t % TicksPerSecond>>

\* int(timedelta.total_seconds()): the fraction of a second is cut off
CeilSeconds_Truncates(ticks) == ticks \div TicksPerSecond

\* int(math.ceil(timedelta.total_seconds()))
CeilSeconds(ticks) == (ticks + TicksPerSecond - 1) \div TicksPerSecond

-----------------------------------------------------------------------------
(* JSON and the test descriptor *)

\* keyword arguments a caller may pass on to the Test constructor
NoParams == <<>>

\* a value is its type and its text: the int 1, the tuple (0, 1)
ParamSets ==
    {NoParams,
     <<[key |-> "tolerance", val |-> [type |-> "int", v |-> "1"]]>>,
     <<[key |-> "window", val |-> [type |-> "tuple", v |-> "0, 1"]]>>}

\* an encoder that writes every value as the string of its text
JsonValue_AsString(val) == [type |-> "str", v |-> val.v]

\* json.dumps of a value: a tuple is written as an array
JsonValue(val) == IF val.type = "tuple" THEN [type |-> "list", v |-> val.v] ELSE val

json_dumps(test_info) ==
    [test_info EXCEPT !.params =
        [k \in DOMAIN test_info.params |->
            [key |-> test_info.params[k].key, val |-> JsonValue(test_info.params[k].val)]]]

\* json.load of a file json_dumps wrote
json_load(content) == content.text

-----------------------------------------------------------------------------
(* prepare_run_test_offline *)

\* a download that makes the timestamped folder before it looks the scheme up
DownloadObservation_FolderFirst(w, test_library, test_id, env) ==
    LET td == get_test_definition(w, test_id, env)
    IN IF td.exc # NoExc THEN td
       ELSE LET test_observation_path == td.ret.data_location
                base_folder == <<test_id, strftime(td.w.now)>>
                made == [td.w EXCEPT !.fs = mkdir(@, base_folder, "")]
            IN IF test_observation_path.scheme \notin URI_SCHEME_MAP
               THEN Raise(made, UnsupportedSchemeError(test_observation_path.scheme))
               ELSE LET dl == download_data(made, test_observation_path, base_folder, env)
                    IN IF dl.exc # NoExc THEN dl
                       ELSE Return(dl.w, [base_folder |-> base_folder,
                                          test_observation_file |-> dl.ret[1]])

\* a download that is not told the folder and writes into the working directory
DownloadObservation_NoFolder(w, test_library, test_id, env) ==
    LET td == get_test_definition(w, test_id, env)
    IN IF td.exc # NoExc THEN td
       ELSE LET test_observation_path == td.ret.data_location
            IN IF test_observation_path.scheme \notin URI_SCHEME_MAP
               THEN Raise(td.w, UnsupportedSchemeError(test_observation_path.scheme))
               ELSE LET base_folder == <<test_id, strftime(td.w.now)>>
                        dl == download_data(td.w, test_observation_path, <<"", 0>>, env)
                    IN IF dl.exc # NoExc THEN dl
                       ELSE Return([dl.w EXCEPT !.fs = mkdir(@, base_folder, "")],
                                   [base_folder |-> base_folder,
                                    test_observation_file |-> dl.ret[1]])

\* utils.py 161-166: look the datastore up by scheme, then download
DownloadObservation(w, test_library, test_id, env) ==
    LET td == get_test_definition(w, test_id, env)
    IN IF td.exc # NoExc THEN td
       ELSE LET test_observation_path == td.ret.data_location
            IN IF test_observation_path.scheme \notin URI_SCHEME_MAP
               THEN Raise(td.w, UnsupportedSchemeError(test_observation_path.scheme))
               ELSE LET base_folder == <<test_id, strftime(td.w.now)>>
                        dl == download_data(td.w, test_observation_path, base_folder, env)
                    IN IF dl.exc # NoExc THEN dl
                       ELSE Return(dl.w, [base_folder |-> base_folder,
                                          test_observation_file |-> dl.ret[1]])

\* utils.py 169-174: the test_info dictionary
TestInfo(test_id, test_instance_id, test_instance_path, test_observation_file, params) ==
    [test_id |-> test_id,
     test_instance_id |-> test_instance_id,
     test_instance_path |-> test_instance_path,
     test_observation_file |-> test_observation_file.name[1],
     params |-> params]

\* a writer that takes the two identifiers in the wrong order
WriteTestConfig_SwapsIds(w, test_id, test_instance_id, test_instance_path, base_folder, test_observation_file, params) ==
    LET test_info == TestInfo(test_instance_id, test_id, test_instance_path,
                              test_observation_file, params)
        test_config_file == FileIn(base_folder, "test_config.json")
    IN Return([Emit(w, "write_config") EXCEPT
                  !.fs = Put(@, test_config_file, [kind |-> "json", text |-> json_dumps(test_info)])],
              test_config_file)

\* utils.py 168-180: build test_info and write it to test_config.json
WriteTestConfig(w, test_id, test_instance_id, test_instance_path, base_folder, test_observation_file, params) ==
    LET test_info == TestInfo(test_id, test_instance_id, test_instance_path,
                              test_observation_file, params)
        test_config_file == FileIn(base_folder, "test_config.json")
    IN Return([Emit(w, "write_config") EXCEPT
                  !.fs = Put(@, test_config_file, [kind |-> "json", text |-> json_dumps(test_info)])],
              test_config_file)

\* a prepare_run_test_offline that lets a test_id override the test_instance_id
prepare_run_test_offline_TestIdFirst(w, client_obj, test_instance_id, test_id, test_alias, test_version, params, env) ==
    LET test_library == NewClient(Emit(w, "prepare_run_test_offline"), client_obj, env)
    IN IF test_library.exc # NoExc THEN test_library
       ELSE IF test_instance_id = "" /\ test_id = "" /\ test_alias = ""
       THEN Raise(test_library.w, NoTestIdError)
       ELSE LET ti == get_test_instance(test_library.w,
                                        IF test_id # "" THEN "" ELSE test_instance_id,
                                        test_id, test_alias, test_version, env)
            IN IF ti.exc # NoExc THEN ti
               ELSE LET test_instance_json == ti.ret
                        obs == DownloadObservation(ti.w, test_library.ret,
                                                   test_instance_json.test_definition_id, env)
                    IN IF obs.exc # NoExc THEN obs
                       ELSE WriteTestConfig(obs.w,
                                            test_instance_json.test_definition_id,
                                            test_instance_json.id,
                                            test_instance_json.path,
                                            obs.ret.base_folder,
                                            obs.ret.test_observation_file,
                                            params)

\* utils.py 147-180
prepare_run_test_offline(w, client_obj, test_instance_id, test_id, test_alias, test_version, params, env) ==
    LET test_library == NewClient(Emit(w, "prepare_run_test_offline"), client_obj, env)
    IN IF test_library.exc # NoExc THEN test_library
       ELSE IF test_instance_id = "" /\ test_id = "" /\ test_alias = ""
       THEN Raise(test_library.w, NoTestIdError)
       ELSE LET ti == get_test_instance(test_library.w, test_instance_id, test_id,
                                        test_alias, test_version, env)
            IN IF ti.exc # NoExc THEN ti
               ELSE LET test_instance_json == ti.ret
                        obs == DownloadObservation(ti.w, test_library.ret,
                                                   test_instance_json.test_definition_id, env)
                    IN IF obs.exc # NoExc THEN obs
                       ELSE WriteTestConfig(obs.w,
                                            test_instance_json.test_definition_id,
                                            test_instance_json.id,
                                            test_instance_json.path,
                                            obs.ret.base_folder,
                                            obs.ret.test_observation_file,
                                            params)

-----------------------------------------------------------------------------
(* run_test_offline *)

\* the objects a caller may pass as `model`
ModelObjects ==
    {[cls |-> "sciunit.Model", name |-> "hippoCircuit"],
     [cls |-> "sciunit.Model", name |-> "cerebellum"],
     [cls |-> "object", name |-> ""]}

\* what test.judge(model, deep_error=True) may produce: a score value, or an error
ScoreValues == {[type |-> "float", repr |-> "0.5"], [type |-> "bool", repr |-> "True"]}

JudgeRaises == [type |-> "raise", repr |-> ""]

NoHash == [seed |-> -1, of |-> <<>>]

\* utils.py 216-237: load the descriptor, the test class and the observation
LoadTest(w, test_config_file, env) ==
    LET base_folder == test_config_file.folder
        test_info == json_load(w.fs[test_config_file])
        observation == FileIn(base_folder, test_info.test_observation_file)
    IN IF env.fail = "import_module"
       THEN Raise(Emit(w, "import_module"), Exc("ImportError", test_info.test_instance_path))
       ELSE IF ~isfile(w.fs, observation)
       THEN Raise(Emit(w, "import_module"), Exc("IOError", test_info.test_observation_file))
       ELSE Return(Emit(Emit(w, "import_module"), "read_observation"),
                   [uuid |-> test_info.test_instance_id,
                    path |-> test_info.test_instance_path,
                    params |-> test_info.params])

\* a judge without deep_error: the error of the test comes back as a score
JudgeModel_ErrorScore(w, test, model, env) ==
    LET t_start == w.now
        t_end == w.now + env.dur
        w1 == [Emit(w, "judge") EXCEPT !.now = t_end]
    IN Return(w1, [model |-> model,
                   test |-> test,
                   score |-> env.judge,
                   related_data |-> [project |-> ""],
                   runtime |-> <<CeilSeconds(t_end - t_start), " s">>,
                   exec_timestamp |-> t_end,
                   score_hash |-> NoHash])

\* utils.py 252-266: judge the model and stamp runtime and exec_timestamp on the score
JudgeModel(w, test, model, env) ==
    LET t_start == w.now
        t_end == w.now + env.dur
        w1 == [Emit(w, "judge") EXCEPT !.now = t_end]
    IN IF env.judge = JudgeRaises
       THEN Raise(w1, TestExecutionError)
       ELSE Return(w1, [model |-> model,
                        test |-> test,
                        score |-> env.judge,
                        related_data |-> [project |-> ""],
                        runtime |-> <<CeilSeconds(t_end - t_start), " s">>,
                        exec_timestamp |-> t_end,
                        score_hash |-> NoHash])

\* a writer that hands back the results directory instead of the file
SaveResult_ReturnsDirectory(w, base_folder, model, score) ==
    LET test_result_file == Path(base_folder, "results", <<"result__", model.name, strftime(w.now)>>)
    IN Return([Emit(w, "write_result") EXCEPT
                  !.fs = Put(mkdir(@, base_folder, "results"), test_result_file,
                             [kind |-> "pkl", score |-> score])],
              Directory(base_folder, "results"))

\* utils.py 269-274: pickle the score under <base_folder>/results
SaveResult(w, base_folder, model, score) ==
    LET test_result_file == Path(base_folder, "results", <<"result__", model.name, strftime(w.now)>>)
    IN Return([Emit(w, "write_result") EXCEPT
                  !.fs = Put(mkdir(@, base_folder, "results"), test_result_file,
                             [kind |-> "pkl", score |-> score])],
              test_result_file)

\* a runner that makes the results directory before it checks the path
run_test_offline_ResultsDirFirst(w, model, test_config_file, env) ==
    LET w0 == [Emit(w, "run_test_offline") EXCEPT
                  !.fs = mkdir(@, test_config_file.folder, "results")]
    IN IF ~isfile(w0.fs, test_config_file)
       THEN Raise(w0, ConfigNotFoundError)
       ELSE LET test == LoadTest(w0, test_config_file, env)
            IN IF test.exc # NoExc THEN test
               ELSE IF model.cls # "sciunit.Model"
               THEN Raise(test.w, ModelTypeError)
               ELSE LET score == JudgeModel(test.w, test.ret, model, env)
                    IN IF score.exc # NoExc THEN score
                       ELSE SaveResult(score.w, test_config_file.folder, model, score.ret)

\* a runner that looks at the model only after the test has judged it
run_test_offline_JudgesFirst(w, model, test_config_file, env) ==
    LET w0 == Emit(w, "run_test_offline")
    IN IF ~isfile(w0.fs, test_config_file)
       THEN Raise(w0, ConfigNotFoundError)
       ELSE LET test == LoadTest(w0, test_config_file, env)
            IN IF test.exc # NoExc THEN test
               ELSE LET score == JudgeModel(test.w, test.ret, model, env)
                    IN IF score.exc # NoExc THEN score
                       ELSE IF model.cls # "sciunit.Model"
                       THEN Raise(score.w, ModelTypeError)
                       ELSE SaveResult(score.w, test_config_file.folder, model, score.ret)

\* utils.py 212-274
run_test_offline(w, model, test_config_file, env) ==
    LET w0 == Emit(w, "run_test_offline")
    IN IF ~isfile(w0.fs, test_config_file)
       THEN Raise(w0, ConfigNotFoundError)
       ELSE LET test == LoadTest(w0, test_config_file, env)
            IN IF test.exc # NoExc THEN test
               ELSE IF model.cls # "sciunit.Model"
               THEN Raise(test.w, ModelTypeError)
               ELSE LET score == JudgeModel(test.w, test.ret, model, env)
                    IN IF score.exc # NoExc THEN score
                       ELSE SaveResult(score.w, test_config_file.folder, model, score.ret)

-----------------------------------------------------------------------------
(* The de-duplication hash *)

\* json.dumps of one value of result_json: a float by its repr, a bool as
\* true/false, a string quoted, anything else (default=str) as the quoted str()
JsonToken(v) ==
    IF v.type = "bool"
    THEN [quoted |-> FALSE, text |-> IF v.repr = "True" THEN "true" ELSE "false"]
    ELSE IF v.type \in {"float", "int"}
    THEN [quoted |-> FALSE, text |-> v.repr]
    ELSE [quoted |-> TRUE, text |-> v.repr]

\* json.dumps(result_json, sort_keys=True, default=str): the members in key order
json_dumps_sorted(result_json) ==
    <<[key |-> "exectime", quoted |-> TRUE, text |-> StrDatetime(result_json.exectime)],
      [key |-> "model_instance_id", quoted |-> TRUE, text |-> result_json.model_instance_id],
      [key |-> "runtime", quoted |-> TRUE, text |-> result_json.runtime],
      [key |-> "score", quoted |-> JsonToken(result_json.score).quoted,
                        text |-> JsonToken(result_json.score).text],
      [key |-> "test_code_id", quoted |-> TRUE, text |-> result_json.test_code_id]>>

\* hash(str) of the interpreter whose string-hash seed is hashseed (Python 3
\* draws the seed anew for every process unless PYTHONHASHSEED fixes it;
\* Python 2 hashes unseeded).  The 64-bit value is taken as free of
\* collisions: it is the pair of the seed and the text hashed.
hash(hashseed, text) == [seed |-> hashseed, of |-> text]

\* a hash that leaves the execution timestamp out
ScoreHash_NoTimestamp(hashseed, model_instance_uuid, score) ==
    LET result_json == [model_instance_id |-> model_instance_uuid,
                        test_code_id |-> score.test.uuid,
                        score |-> score.score,
                        runtime |-> score.runtime,
                        exectime |-> 0]
    IN hash(hashseed, json_dumps_sorted(result_json))

\* utils.py 349-357
ScoreHash(hashseed, model_instance_uuid, score) ==
    LET result_json == [model_instance_id |-> model_instance_uuid,
                        test_code_id |-> score.test.uuid,
                        score |-> score.score,
                        runtime |-> score.runtime,
                        exectime |-> score.exec_timestamp]
    IN hash(hashseed, json_dumps_sorted(result_json))

-----------------------------------------------------------------------------
(* Catalog requests of upload_test_result *)

\* model_catalog.find_model_instance_else_add(model): the instance id of the
\* model, registered first when the catalog does not know it yet
find_model_instance_else_add(w, model, env) ==
    LET w1 == Emit(w, "find_model_instance_else_add")
    IN IF env.fail = "find_model_instance_else_add" \/ model.name \notin DOMAIN Models
       THEN Raise(w1, CatalogError("find_model_instance_else_add"))
       ELSE Return([w1 EXCEPT !.model_instances = @ \cup {Models[model.name].instance}],
                   Models[model.name].instance)

get_model_instance(w, instance_id, env) ==
    LET w1 == Emit(w, "get_model_instance")
        owner == {m \in DOMAIN Models : Models[m].instance = instance_id}
    IN IF env.fail = "get_model_instance" \/ instance_id \notin w.model_instances
       THEN Raise(w1, CatalogError("get_model_instance"))
       ELSE Return(w1, [id |-> instance_id, model_id |-> Models[CHOOSE m \in owner : TRUE].id])

get_model(w, model_id, env) ==
    LET w1 == Emit(w, "get_model")
        named == {m \in DOMAIN Models : Models[m].id = model_id}
    IN IF env.fail = "get_model" \/ named = {}
       THEN Raise(w1, CatalogError("get_model"))
       ELSE LET m == CHOOSE n \in named : TRUE
            IN Return(w1, [id |-> model_id, name |-> m,
                           app |-> [collab_id |-> Models[m].collab_id]])

\* test_library.list_results(model_version_id, test_code_id)["results"]
list_results(w, model_version_id, test_code_id, env) ==
    LET w1 == Emit(w, "list_results")
        Match(x) == x.model_version_id = model_version_id /\ x.test_code_id = test_code_id
    IN IF env.fail = "list_results"
       THEN Raise(w1, CatalogError("list_results"))
       ELSE Return(w1, SelectSeq(w.results, Match))

\* the n-th identifier the catalog hands out
uuid4(n) == <<"result-1", "result-2", "result-3", "result-4">>[n]

\* test_library.register_result(test_result, data_store): the catalog stores the
\* result under a new identifier and answers with that identifier
register_result(w, test_result, data_store, env) ==
    LET w1 == Emit(w, "register_result")
        id == uuid4(Len(w.results) + 1)
    IN IF env.fail = "register_result"
       THEN Raise(w1, CatalogError("register_result"))
       ELSE Return([w1 EXCEPT !.results =
                        Append(@, [id |-> id,
                                   model_version_id |-> Models[test_result.model.name].instance,
                                   test_code_id |-> test_result.test.uuid,
                                   score |-> test_result.score,
                                   runtime |-> test_result.runtime,
                                   exec_timestamp |-> test_result.exec_timestamp,
                                   hash |-> test_result.score_hash,
                                   project |-> test_result.related_data.project,
                                   data_store |-> data_store])],
                   id)

-----------------------------------------------------------------------------
(* upload_test_result *)

\* pickle.load of a file pickle.dump wrote
pickle_load(content) == content.score

\* a loader that consumes the file it reads
LoadResult_Consumes(w, test_result_file) ==
    Return([Emit(w, "read_result") EXCEPT
               !.fs = [q \in DOMAIN @ \ {test_result_file} |-> @[q]]],
           pickle_load(w.fs[test_result_file]))

\* utils.py 328-330: read the score back; the file is opened for reading only
LoadResult(w, test_result_file) ==
    Return(Emit(w, "read_result"), pickle_load(w.fs[test_result_file]))

\* utils.py 337-341: the model instance of the score's model, its host collab and name
ResolveModel(w, model_catalog, score, env) ==
    LET mi == find_model_instance_else_add(w, score.model, env)
    IN IF mi.exc # NoExc THEN mi
       ELSE LET model_instance_json == get_model_instance(mi.w, mi.ret, env)
            IN IF model_instance_json.exc # NoExc THEN model_instance_json
               ELSE LET model_json == get_model(model_instance_json.w,
                                                model_instance_json.ret.model_id, env)
                    IN IF model_json.exc # NoExc THEN model_json
                       ELSE Return(model_json.w,
                                   [model_instance_uuid |-> mi.ret,
                                    model_host_collab_id |-> model_json.ret.app.collab_id,
                                    model_name |-> model_json.ret.name])

\* a duplicate check that wants more than one match before it refuses
DuplicateResults_NeedsTwo(listed, score_hash) ==
    LET Same(x) == x.hash = score_hash
        dup == SelectSeq(listed, Same)
    IN IF Len(dup) > 1 THEN [i \in 1..Len(dup) |-> dup[i].id] ELSE <<>>

\* utils.py 360: the ids of the listed results that carry the score's hash
DuplicateResults(listed, score_hash) ==
    LET Same(x) == x.hash = score_hash
        dup == SelectSeq(listed, Same)
    IN [i \in 1..Len(dup) |-> dup[i].id]

\* a registration that is sent again after it was answered
RegisterResult_Twice(w, score, storage_collab_id, model_name, env) ==
    LET collab_folder == <<"validation_results", model_name, strftime(w.now)>>
        collab_storage == [collab_id |-> storage_collab_id, base_folder |-> collab_folder]
        first == register_result(w, score, collab_storage, env)
        response == register_result(first.w, score, collab_storage, env)
    IN IF first.exc # NoExc THEN first
       ELSE Return(response.w, <<response.ret, score>>)

\* a registration that hands back the test instance id instead of the response
RegisterResult_ReturnsTestId(w, score, storage_collab_id, model_name, env) ==
    LET collab_folder == <<"validation_results", model_name, strftime(w.now)>>
        collab_storage == [collab_id |-> storage_collab_id, base_folder |-> collab_folder]
        response == register_result(w, score, collab_storage, env)
    IN IF response.exc # NoExc THEN response
       ELSE Return(response.w, <<score.test.uuid, score>>)

\* utils.py 364-370: register under a timestamped folder of the storage collab
RegisterResult(w, score, storage_collab_id, model_name, env) ==
    LET collab_folder == <<"validation_results", model_name, strftime(w.now)>>
        collab_storage == [collab_id |-> storage_collab_id, base_folder |-> collab_folder]
        response == register_result(w, score, collab_storage, env)
    IN IF response.exc # NoExc THEN response
       ELSE Return(response.w, <<response.ret, score>>)

\* an upload that stores the files in the model's host collab whatever the caller named
CheckAndRegister_StoresAtHost(w, score, model, storage_collab_id, env) ==
    LET storage == IF storage_collab_id = "" THEN model.model_host_collab_id
                                             ELSE storage_collab_id
        hashed == [score EXCEPT !.related_data.project = storage,
                                !.score_hash = ScoreHash(w.seed, model.model_instance_uuid, score)]
        test_library == Emit(w, "from_existing")
        listed == list_results(test_library, model.model_instance_uuid, score.test.uuid, env)
    IN IF listed.exc # NoExc THEN listed
       ELSE LET duplicate_results == DuplicateResults(listed.ret, hashed.score_hash)
            IN IF duplicate_results # <<>>
               THEN Raise(listed.w, DuplicateResultError(duplicate_results))
               ELSE RegisterResult(listed.w, hashed, model.model_host_collab_id,
                                   model.model_name, env)

\* utils.py 343-370: storage location, hash, duplicate check, registration
CheckAndRegister(w, score, model, storage_collab_id, env) ==
    LET storage == IF storage_collab_id = "" THEN model.model_host_collab_id
                                             ELSE storage_collab_id
        hashed == [score EXCEPT !.related_data.project = storage,
                                !.score_hash = ScoreHash(w.seed, model.model_instance_uuid, score)]
        test_library == Emit(w, "from_existing")
        listed == list_results(test_library, model.model_instance_uuid, score.test.uuid, env)
    IN IF listed.exc # NoExc THEN listed
       ELSE LET duplicate_results == DuplicateResults(listed.ret, hashed.score_hash)
            IN IF duplicate_results # <<>>
               THEN Raise(listed.w, DuplicateResultError(duplicate_results))
               ELSE RegisterResult(listed.w, hashed, storage, model.model_name, env)

\* an uploader that builds its client before it looks at the path
upload_test_result_ClientFirst(w, client_obj, test_result_file, storage_collab_id, register, env) ==
    LET w0 == Emit(w, "upload_test_result")
    IN IF ~register
       THEN Return(w0, <<None, None>>)
       ELSE LET model_catalog == NewClient(w0, client_obj, env)
            IN IF model_catalog.exc # NoExc THEN model_catalog
               ELSE IF ~isfile(w0.fs, test_result_file)
               THEN Raise(model_catalog.w, ResultNotFoundError)
               ELSE LET score == LoadResult(model_catalog.w, test_result_file)
                        model == ResolveModel(score.w, model_catalog.ret, score.ret, env)
                    IN IF model.exc # NoExc THEN model
                       ELSE CheckAndRegister(model.w, score.ret, model.ret,
                                             storage_collab_id, env)

\* an upload that looks for the result file before it looks at register_result
upload_test_result_FileFirst(w, client_obj, test_result_file, storage_collab_id, register, env) ==
    LET w0 == Emit(w, "upload_test_result")
    IN IF ~isfile(w0.fs, test_result_file)
       THEN Raise(w0, ResultNotFoundError)
       ELSE IF ~register
       THEN Return(w0, <<None, None>>)
       ELSE LET score == LoadResult(w0, test_result_file)
                model_catalog == NewClient(score.w, client_obj, env)
            IN IF model_catalog.exc # NoExc THEN model_catalog
               ELSE LET model == ResolveModel(model_catalog.w, model_catalog.ret,
                                              score.ret, env)
                    IN IF model.exc # NoExc THEN model
                       ELSE CheckAndRegister(model.w, score.ret, model.ret,
                                             storage_collab_id, env)

\* utils.py 323-370
upload_test_result(w, client_obj, test_result_file, storage_collab_id, register, env) ==
    LET w0 == Emit(w, "upload_test_result")
    IN IF ~register
       THEN Return(w0, <<None, None>>)
       ELSE IF ~isfile(w0.fs, test_result_file)
       THEN Raise(w0, ResultNotFoundError)
       ELSE LET score == LoadResult(w0, test_result_file)
                model_catalog == NewClient(score.w, client_obj, env)
            IN IF model_catalog.exc # NoExc THEN model_catalog
               ELSE LET model == ResolveModel(model_catalog.w, model_catalog.ret,
                                              score.ret, env)
                    IN IF model.exc # NoExc THEN model
                       ELSE CheckAndRegister(model.w, score.ret, model.ret,
                                             storage_collab_id, env)

-----------------------------------------------------------------------------
(* run_test *)

StepOf(fn, arg, r) == [fn |-> fn, arg |-> arg, exc |-> r.exc, ret |-> r.ret]

\* the element of a one-element set: in The({e : v \in {x}}) the value of x is
\* computed once and e is evaluated with v bound to it
The(S) == CHOOSE y \in S : TRUE

\* a chain that goes on to the upload although run_test_offline raised
run_test_GoesOn(w, model, ident, storage_collab_id, register, client_obj, params, env) ==
    The({LET s1 == <<StepOf("prepare_run_test_offline", MissingPath, p)>>
             test_config_file == p.ret
         IN IF p.exc # NoExc THEN [w |-> p.w, exc |-> p.exc, ret |-> None, steps |-> s1]
            ELSE
    The({LET s2 == Append(s1, StepOf("run_test_offline", test_config_file, r))
             test_result_file == IF r.exc # NoExc THEN MissingPath ELSE r.ret
         IN
    The({[w |-> u.w, exc |-> u.exc, ret |-> u.ret,
          steps |-> Append(s2, StepOf("upload_test_result", test_result_file, u))]
         : u \in {upload_test_result(r.w, client_obj, test_result_file,
                                     storage_collab_id, register, env)}})
         : r \in {run_test_offline(p.w, model, test_config_file, env)}})
         : p \in {prepare_run_test_offline(w, client_obj, ident.test_instance_id,
                                           ident.test_id, ident.test_alias,
                                           ident.test_version, params, env)}})

\* utils.py 431-434: the three calls, each on what the one before returned.  The
\* result carries, besides the outcome, the calls made (function, path given,
\* exception, return value).
run_test(w, model, ident, storage_collab_id, register, client_obj, params, env) ==
    The({LET s1 == <<StepOf("prepare_run_test_offline", MissingPath, p)>>
             test_config_file == p.ret
         IN IF p.exc # NoExc THEN [w |-> p.w, exc |-> p.exc, ret |-> None, steps |-> s1]
            ELSE
    The({LET s2 == Append(s1, StepOf("run_test_offline", test_config_file, r))
             test_result_file == r.ret
         IN IF r.exc # NoExc THEN [w |-> r.w, exc |-> r.exc, ret |-> None, steps |-> s2]
            ELSE
    The({[w |-> u.w, exc |-> u.exc, ret |-> u.ret,
          steps |-> Append(s2, StepOf("upload_test_result", test_result_file, u))]
         : u \in {upload_test_result(r.w, client_obj, test_result_file,
                                     storage_collab_id, register, env)}})
         : r \in {run_test_offline(p.w, model, test_config_file, env)}})
         : p \in {prepare_run_test_offline(w, client_obj, ident.test_instance_id,
                                           ident.test_id, ident.test_alias,
                                           ident.test_version, params, env)}})

-----------------------------------------------------------------------------
(* What the environment decides during one call.  A call stops at the first *)
(* exception, so at most one thing goes wrong in it.                        *)

Requests ==
    {"get_test_instance", "get_test_definition", "download_data", "import_module",
     "find_model_instance_else_add", "get_model_instance", "get_model",
     "list_results", "register_result"}

Env(auth, fail, judge, dur) == [auth |-> auth, fail |-> fail, judge |-> judge, dur |-> dur]

DefaultScore == [type |-> "float", repr |-> "0.5"]

\* nothing goes wrong: the judge returns a score after some time
Judgements == {Env(TRUE, "", v, d) : v \in ScoreValues, d \in 0..MaxJudge}

\* one thing goes wrong: authentication refused, a request fails, the test raises
Faults(requests) ==
    {Env(FALSE, "", DefaultScore, 0)}
        \cup {Env(TRUE, f, DefaultScore, 0) : f \in requests}

PrepareEnvs ==
    {Env(TRUE, "", DefaultScore, 0)}
        \cup Faults({"get_test_instance", "get_test_definition", "download_data"})

RunEnvs == Judgements \cup {Env(TRUE, "import_module", DefaultScore, 0)}
                      \cup {Env(TRUE, "", JudgeRaises, d) : d \in 0..MaxJudge}

UploadEnvs ==
    {Env(TRUE, "", DefaultScore, 0)}
        \cup Faults({"find_model_instance_else_add", "get_model_instance", "get_model",
                     "list_results", "register_result"})

RunTestEnvs ==
    Judgements \cup {Env(TRUE, "", JudgeRaises, 0)}
        \cup Faults({"get_test_instance", "import_module", "get_model", "list_results",
                     "register_result"})

\* the ways a caller names the test
Ident(test_instance_id, test_id, test_alias, test_version) ==
    [test_instance_id |-> test_instance_id, test_id |-> test_id,
     test_alias |-> test_alias, test_version |-> test_version]

Identifiers ==
    {Ident("", "", "", ""), Ident("", "", "", "5.0"),
     Ident("TI1", "", "", ""), Ident("", "T1", "", ""), Ident("", "", "CDT-5", "5.0"),
     Ident("", "", "FTP-1", ""), Ident("TI1", "T2", "", ""), Ident("", "T1", "", "9.9")}

RunTestIdentifiers ==
    {Ident("", "", "", ""), Ident("TI1", "", "", ""), Ident("", "", "CDT-5", "5.0"),
     Ident("", "", "FTP-1", "")}

ClientObjects == {None, "client"}

StorageCollabs == {"", "collab-9"}

-----------------------------------------------------------------------------
(* The state machine *)

NoCall == [op |-> "", steps |-> <<>>, entered |-> <<>>, exc |-> NoExc, ret |-> None]

\* the functions of utils.py entered during a call, in order of entry
Entered(tr) ==
    LET IsEntry(ev) == ev \in {"prepare_run_test_offline", "run_test_offline",
                               "upload_test_result"}
    IN SelectSeq(tr, IsEntry)

World ==
    [fs |-> fs, results |-> results, model_instances |-> model_instances,
     now |-> now, seed |-> seed, trace |-> <<>>]

\* the files of the given kind on disk
FilesOfKind(kind) == {p \in DOMAIN fs : fs[p].kind = kind}

Commit(op, steps, r) ==
    /\ calls < MaxCalls
    /\ r.w.now <= MaxTime
    /\ fs' = r.w.fs
    /\ results' = r.w.results
    /\ model_instances' = r.w.model_instances
    /\ now' = r.w.now
    /\ calls' = calls + 1
    /\ last' = [op |-> op, steps |-> steps, entered |-> Entered(r.w.trace),
                exc |-> r.exc, ret |-> r.ret]
    /\ returned_ids' = IF op \in {"upload_test_result", "run_test"} /\ r.exc = NoExc
                            /\ r.ret[1] # None
                       THEN Append(returned_ids, r.ret[1])
                       ELSE returned_ids
    /\ UNCHANGED <<seed, models>>

Init ==
    /\ fs = [p \in {} |-> [kind |-> "dir"]]
    /\ results = <<>>
    /\ model_instances = {}
    /\ models = <<>>
    /\ now = 0
    /\ seed = 0
    /\ calls = 0
    /\ last = NoCall
    /\ returned_ids = <<>>

\* the clock advances between calls
Tick ==
    /\ now < MaxTime
    /\ calls < MaxCalls
    /\ now' = now + 1
    /\ UNCHANGED <<fs, results, model_instances, models, seed, calls, last, returned_ids>>

\* the caller goes on in a new interpreter process, whose hash seed is drawn anew
NewProcess ==
    /\ 0 < calls /\ calls < MaxCalls
    /\ \E s \in 0..MaxSeed : seed' = s
    /\ seed' # seed
    /\ UNCHANGED <<fs, results, model_instances, models, now, calls, last, returned_ids>>

PrepareRunTestOffline ==
    \E client_obj \in ClientObjects, ident \in Identifiers, params \in ParamSets,
       env \in PrepareEnvs :
        LET r == prepare_run_test_offline(World, client_obj, ident.test_instance_id,
                                          ident.test_id, ident.test_alias,
                                          ident.test_version, params, env)
        IN Commit("prepare_run_test_offline",
                  <<StepOf("prepare_run_test_offline", MissingPath, r)>>, r)

RunTestOffline ==
    \E model \in ModelObjects, test_config_file \in FilesOfKind("json") \cup {MissingPath},
       env \in RunEnvs :
        LET r == run_test_offline(World, model, test_config_file, env)
        IN Commit("run_test_offline", <<StepOf("run_test_offline", test_config_file, r)>>, r)

UploadTestResult ==
    \E client_obj \in ClientObjects, test_result_file \in FilesOfKind("pkl") \cup {MissingPath},
       storage_collab_id \in StorageCollabs, register \in BOOLEAN, env \in UploadEnvs :
        LET r == upload_test_result(World, client_obj, test_result_file,
                                    storage_collab_id, register, env)
        IN Commit("upload_test_result",
                  <<StepOf("upload_test_result", test_result_file, r)>>, r)

RunTest ==
    \E model \in ModelObjects, ident \in RunTestIdentifiers,
       storage_collab_id \in StorageCollabs, register \in BOOLEAN, client_obj \in ClientObjects, env \in RunTestEnvs :
        LET r == run_test(World, model, ident, storage_collab_id, register, client_obj,
                          NoParams, env)
        IN Commit("run_test", r.steps, r)

Next ==
    \/ Tick
    \/ NewProcess
    \/ PrepareRunTestOffline
    \/ RunTestOffline
    \/ UploadTestResult
    \/ RunTest

Spec == Init /\ [][Next]_vars

-----------------------------------------------------------------------------
(* Properties.  A property of one call is stated of the call made in the    *)
(* current state: for every input of the claim's case, the outcome of the   *)
(* function applied to the world as it is now.                              *)

Range(seq) == {seq[i] : i \in DOMAIN seq}

\* the positions of an event in a trace
Positions(tr, ev) == {i \in DOMAIN tr : tr[i] = ev}

\* the request was sent and answered in the call
Answered(r, request) ==
    request \in Range(r.w.trace) /\ r.exc # CatalogError(request)

\* the five hashed fields of a score that is uploaded for a model instance
HashedFields(model_instance_uuid, score) ==
    [model_instance_id |-> model_instance_uuid, test_code_id |-> score.test.uuid,
     score |-> score.score, runtime |-> score.runtime, exectime |-> score.exec_timestamp]

\* the five hashed fields of a result the catalog holds
FieldsOf(x) ==
    [model_instance_id |-> x.model_version_id, test_code_id |-> x.test_code_id,
     score |-> x.score, runtime |-> x.runtime, exectime |-> x.exec_timestamp]

\* the model instance the catalog resolves the score's model to
InstanceOf(score) == Models[score.model.name].instance

\* the ids of the catalog's results for the score's (model instance, test
\* instance) pair whose stored hash is h, in catalog order
ListedWithHash(score, h) ==
    LET Hit(x) == /\ x.model_version_id = InstanceOf(score)
                  /\ x.test_code_id = score.test.uuid
                  /\ x.hash = h
        hits == SelectSeq(results, Hit)
    IN [i \in 1..Len(hits) |-> hits[i].id]

\* environments in which an upload gets as far as the duplicate query's answer
AfterQueryEnvs == {Env(TRUE, "", DefaultScore, 0), Env(TRUE, "register_result", DefaultScore, 0)}

\* C1: when a result the catalog lists for the score's (model instance, test
\* instance) pair carries the freshly computed score_hash, upload_test_result
\* raises the duplicate error naming exactly those result ids, never calls
\* register_result, and leaves the catalog's results as they were.
C1_DuplicateRefused ==
    \A test_result_file \in FilesOfKind("pkl"), client_obj \in ClientObjects,
       storage_collab_id \in StorageCollabs, env \in AfterQueryEnvs :
        LET score == pickle_load(fs[test_result_file])
            r == upload_test_result(World, client_obj, test_result_file,
                                    storage_collab_id, TRUE, env)
            existing == ListedWithHash(score, ScoreHash(seed, InstanceOf(score), score))
        IN (Answered(r, "list_results") /\ existing # <<>>)
            => /\ r.exc = DuplicateResultError(existing)
               /\ "register_result" \notin Range(r.w.trace)
               /\ r.w.results = results

\* a call has just been refused as a duplicate of a registered result
C1_Witness ==
    /\ last.op = "upload_test_result"
    /\ last.exc.ids # <<>>
    /\ last.exc = DuplicateResultError(<<results[1].id>>)

\* C2: over any sequence of uploads the catalog holds at most one result per
\* identical (model instance, test instance, score, runtime, timestamp): a
\* second upload of an input already registered is refused.
C2_AtMostOneResultPerInput ==
    \A i, j \in DOMAIN results :
        i # j => FieldsOf(results[i]) # FieldsOf(results[j])

\* C3: score_hash is a function of the five hashed fields alone: any two
\* results registered with equal fields carry the same hash, whichever
\* process computed it.
C3_HashDeterministic ==
    \A i, j \in DOMAIN results :
        FieldsOf(results[i]) = FieldsOf(results[j]) => results[i].hash = results[j].hash

\* C4: a result that differs from a registered one in any of the five hashed
\* fields has a different score_hash, is not refused as its duplicate, and is
\* registered: registered results with different fields have different
\* hashes, a refusal names only results equal in all five fields, and an
\* upload whose fields no registered result has goes through.
C4_ChangedFieldChangesHash ==
    /\ \A i, j \in DOMAIN results :
          FieldsOf(results[i]) # FieldsOf(results[j]) => results[i].hash # results[j].hash
    /\ \A test_result_file \in FilesOfKind("pkl"), client_obj \in ClientObjects :
          LET score == pickle_load(fs[test_result_file])
              fields == HashedFields(InstanceOf(score), score)
              r == upload_test_result(World, client_obj, test_result_file, "", TRUE,
                                      Env(TRUE, "", DefaultScore, 0))
          IN /\ \A i \in DOMAIN results :
                  results[i].id \in Range(r.exc.ids) => FieldsOf(results[i]) = fields
             /\ (\A i \in DOMAIN results : FieldsOf(results[i]) # fields)
                  => /\ r.exc = NoExc
                     /\ \E k \in DOMAIN r.w.results :
                           /\ k \notin DOMAIN results
                           /\ FieldsOf(r.w.results[k]) = fields

\* two reruns that differ in the execution timestamp alone are both registered
C4_Witness ==
    \E i, j \in DOMAIN results :
        /\ results[i].exec_timestamp # results[j].exec_timestamp
        /\ [FieldsOf(results[i]) EXCEPT !.exectime = 0]
              = [FieldsOf(results[j]) EXCEPT !.exectime = 0]
        /\ last.exc = NoExc
        /\ last.op \in {"run_test", "upload_test_result"}

\* C5: run_test enters prepare_run_test_offline, run_test_offline and
\* upload_test_result in that order, each on the path the one before
\* returned; the first of them to raise is the last one entered, and its
\* exception is the exception of run_test.
C5_RunTestInOrder ==
    last.op = "run_test" =>
        LET steps == last.steps
            n == Len(steps)
            order == <<"prepare_run_test_offline", "run_test_offline", "upload_test_result">>
        IN /\ n \in 1..3
           /\ last.entered = SubSeq(order, 1, n)
           /\ \A k \in 1..n : steps[k].fn = order[k]
           /\ \A k \in 1..(n - 1) : steps[k].exc = NoExc /\ steps[k + 1].arg = steps[k].ret
           /\ n < 3 => steps[n].exc # NoExc
           /\ last.exc = steps[n].exc
           /\ last.exc = NoExc => last.ret = steps[n].ret

\* run_test stopped at run_test_offline, which raised: no upload was entered
C5_Witness ==
    /\ last.op = "run_test"
    /\ Len(last.steps) = 2
    /\ last.exc = TestExecutionError
    /\ last.entered = <<"prepare_run_test_offline", "run_test_offline">>

\* C6: when no result listed for the (model instance, test instance) pair
\* carries the computed hash, upload_test_result sends register_result exactly
\* once, after the duplicate query, with the score's files under a storage
\* folder stamped with the time of the call, and returns the identifier the
\* registration answered together with the score.
C6_RegisteredOnce ==
    \A test_result_file \in FilesOfKind("pkl"), client_obj \in ClientObjects,
       storage_collab_id \in StorageCollabs, env \in AfterQueryEnvs :
        LET score == pickle_load(fs[test_result_file])
            h == ScoreHash(seed, InstanceOf(score), score)
            r == upload_test_result(World, client_obj, test_result_file,
                                    storage_collab_id, TRUE, env)
            n == Len(results)
        IN (Answered(r, "list_results") /\ ListedWithHash(score, h) = <<>>)
            => /\ Cardinality(Positions(r.w.trace, "register_result")) = 1
               /\ \A i \in Positions(r.w.trace, "list_results"),
                     j \in Positions(r.w.trace, "register_result") : i < j
               /\ env.fail = "register_result"
                    => r.exc = CatalogError("register_result") /\ r.w.results = results
               /\ env.fail = ""
                    => /\ r.exc = NoExc
                       /\ Len(r.w.results) = n + 1
                       /\ SubSeq(r.w.results, 1, n) = results
                       /\ r.ret[1] = r.w.results[n + 1].id
                       /\ r.w.results[n + 1].hash = h
                       /\ FieldsOf(r.w.results[n + 1]) = HashedFields(InstanceOf(score), score)
                       /\ r.w.results[n + 1].data_store.base_folder[3] = strftime(now)
                       /\ [r.ret[2] EXCEPT !.score_hash = NoHash, !.related_data.project = ""]
                             = score

\* an upload has just registered a result and returned its identifier
C6_Witness ==
    /\ last.op = "upload_test_result"
    /\ last.exc = NoExc
    /\ results # <<>>
    /\ last.ret[1] = results[Len(results)].id

\* C7: the result identifiers returned by prepare -> run -> upload runs are
\* identifiers of registered results and differ from run to run.
C7_DistinctIdentifiers ==
    /\ \A i, j \in DOMAIN returned_ids : i # j => returned_ids[i] # returned_ids[j]
    /\ \A i \in DOMAIN returned_ids : \E k \in DOMAIN results : results[k].id = returned_ids[i]

\* two runs of run_test have each returned an identifier
C7_Witness ==
    /\ Len(returned_ids) = 2
    /\ last.op = "run_test"
    /\ last.exc = NoExc

\* C8: called with test_instance_id, test_id and test_alias all empty,
\* prepare_run_test_offline raises the error that no identifier was given,
\* looks no test up, downloads nothing and leaves the local files as they are.
C8_NoIdentifierFails ==
    \A client_obj \in ClientObjects, test_version \in {"", "5.0"}, params \in ParamSets,
       env \in PrepareEnvs :
        LET r == prepare_run_test_offline(World, client_obj, "", "", "", test_version,
                                          params, env)
        IN /\ r.exc = NoTestIdError
           /\ Range(r.w.trace) \cap {"get_test_instance", "get_test_definition",
                                     "download_data", "write_config"} = {}
           /\ r.w.fs = fs

\* the ways of naming a test whose data location has a scheme without datastore
UnsupportedIdentifiers ==
    {ident \in Identifiers :
        LET ti == get_test_instance(World, ident.test_instance_id, ident.test_id,
                                    ident.test_alias, ident.test_version,
                                    Env(TRUE, "", DefaultScore, 0))
        IN /\ ti.exc = NoExc
           /\ TestDefinitions[ti.ret.test_definition_id].scheme \notin URI_SCHEME_MAP}

\* C9: when the data location of the test has a scheme without datastore,
\* prepare_run_test_offline raises the unsupported-scheme error once the
\* catalog has answered, and writes nothing: no download, no descriptor, no
\* directory, and no folder of such a test ever exists.
C9_UnsupportedScheme ==
    /\ \A p \in DOMAIN fs : TestDefinitions[p.folder[1]].scheme \in URI_SCHEME_MAP
    /\ \A ident \in UnsupportedIdentifiers, client_obj \in ClientObjects,
          params \in ParamSets, env \in PrepareEnvs :
          LET r == prepare_run_test_offline(World, client_obj, ident.test_instance_id,
                                            ident.test_id, ident.test_alias,
                                            ident.test_version, params, env)
          IN Answered(r, "get_test_definition")
              => /\ r.exc.cls = "KeyError"
                 /\ r.exc = UnsupportedSchemeError("ftp")
                 /\ Range(r.w.trace) \cap {"download_data", "write_config"} = {}
                 /\ r.w.fs = fs

\* a prepare has just failed on the ftp data location
C9_Witness ==
    /\ last.op = "prepare_run_test_offline"
    /\ last.exc = UnsupportedSchemeError("ftp")

\* C10: when upload_test_result raises on a result file run_test_offline
\* wrote, the file is still there with the content it had, and the upload
\* can be tried again on the same path.
C10_ResultFileKept ==
    \A test_result_file \in FilesOfKind("pkl"), client_obj \in ClientObjects,
       storage_collab_id \in StorageCollabs, env \in UploadEnvs :
        LET r == upload_test_result(World, client_obj, test_result_file,
                                    storage_collab_id, TRUE, env)
            again == upload_test_result([r.w EXCEPT !.trace = <<>>], client_obj,
                                        test_result_file, storage_collab_id, TRUE,
                                        Env(TRUE, "", DefaultScore, 0))
        IN r.exc # NoExc
            => /\ isfile(r.w.fs, test_result_file)
               /\ r.w.fs[test_result_file] = fs[test_result_file]
               /\ again.exc # ResultNotFoundError

\* run_test has just failed in the registration, after the score was persisted
C10_Witness ==
    /\ last.op = "run_test"
    /\ Len(last.steps) = 3
    /\ last.exc = CatalogError("register_result")
    /\ isfile(fs, last.steps[3].arg)
    /\ fs[last.steps[3].arg].score.exec_timestamp = now

-----------------------------------------------------------------------------
(* The persisted score after the upload *)

\* C11: once upload_test_result has returned a new result identifier, the
\* result file it read is no longer on disk.
C11_ResultFileDiscarded ==
    (/\ last.op \in {"upload_test_result", "run_test"}
     /\ last.exc = NoExc
     /\ last.ret[1] # None)
        => ~isfile(fs, last.steps[Len(last.steps)].arg)

-----------------------------------------------------------------------------
(* The test descriptor *)

\* the environment in which nothing goes wrong
NoFault == Env(TRUE, "", DefaultScore, 0)

\* the test instance the catalog resolves the caller's identifiers to
Resolved(ident) ==
    get_test_instance(World, ident.test_instance_id, ident.test_id, ident.test_alias,
                      ident.test_version, NoFault)

\* the test_info prepare_run_test_offline builds for the identifiers and params
WrittenInfo(ident, params) ==
    LET ti == Resolved(ident).ret
    IN [test_id |-> ti.test_definition_id,
        test_instance_id |-> ti.id,
        test_instance_path |-> ti.path,
        test_observation_file |-> TestDefinitions[ti.test_definition_id].file,
        params |-> params]

\* the descriptor a call of prepare_run_test_offline leaves, read back as
\* run_test_offline reads it
ReadBack(r) == json_load(r.w.fs[r.ret])

\* params whose values JSON has a type for (no tuple among them)
JsonNative(params) == \A k \in DOMAIN params : params[k].val.type # "tuple"

DescriptorKeys ==
    {"test_id", "test_instance_id", "test_instance_path", "test_observation_file", "params"}

\* C13: every descriptor on disk is an object with exactly the five keys,
\* whose test_instance_id is a test instance of the catalog and whose test_id
\* and test_instance_path are that instance's; the descriptor a call writes
\* names the instance the catalog resolved the caller's identifiers to, not
\* the identifiers as passed, and its params has the caller's keys and values.
C13_DescriptorFields ==
    /\ \A p \in FilesOfKind("json") :
          LET d == fs[p].text
          IN /\ DOMAIN d = DescriptorKeys
             /\ d.test_instance_id \in DOMAIN TestInstances
             /\ d.test_id = TestInstances[d.test_instance_id].test_definition_id
             /\ d.test_instance_path = TestInstances[d.test_instance_id].path
    /\ \A client_obj \in ClientObjects, ident \in Identifiers, params \in ParamSets,
          env \in PrepareEnvs :
          LET r == prepare_run_test_offline(World, client_obj, ident.test_instance_id,
                                            ident.test_id, ident.test_alias,
                                            ident.test_version, params, env)
          IN r.exc = NoExc
              => LET d == r.w.fs[r.ret].text
                 IN /\ r.w.fs[r.ret].kind = "json"
                    /\ DOMAIN d = DescriptorKeys
                    /\ d.test_instance_id = Resolved(ident).ret.id
                    /\ d.test_id = Resolved(ident).ret.test_definition_id
                    /\ DOMAIN d.params = DOMAIN params
                    /\ \A k \in DOMAIN params :
                          d.params[k].key = params[k].key /\ d.params[k].val.v = params[k].val.v

\* a descriptor was just written for the instance TI2, which no caller passes
\* as test_instance_id: it was resolved from a test id or an alias
C13_Witness ==
    /\ last.op = "prepare_run_test_offline"
    /\ last.exc = NoExc
    /\ fs[last.ret].text.test_instance_id = "TI2"
    /\ \A ident \in Identifiers : ident.test_instance_id # "TI2"

\* the observation file a descriptor at path p names: the descriptor's
\* directory joined with its test_observation_file (utils.py 214, 228)
ObservationOf(files, p) == FileIn(p.folder, files[p].text.test_observation_file)

\* C14: every descriptor on disk has the observation file it names in its own
\* directory; after a successful prepare_run_test_offline that file is the
\* observation downloaded from the test's data location, and it is the file
\* run_test_offline reads.
C14_ObservationBesideDescriptor ==
    /\ \A p \in FilesOfKind("json") :
          /\ isfile(fs, ObservationOf(fs, p))
          /\ fs[ObservationOf(fs, p)].kind = "observation"
    /\ \A client_obj \in ClientObjects, ident \in Identifiers, params \in ParamSets :
          LET r == prepare_run_test_offline(World, client_obj, ident.test_instance_id,
                                            ident.test_id, ident.test_alias,
                                            ident.test_version, params, NoFault)
          IN r.exc = NoExc
              => LET obs == ObservationOf(r.w.fs, r.ret)
                     td == TestDefinitions[Resolved(ident).ret.test_definition_id]
                     test == LoadTest([r.w EXCEPT !.trace = <<>>], r.ret, NoFault)
                 IN /\ isfile(r.w.fs, obs)
                    /\ obs.folder = r.ret.folder /\ obs.sub = r.ret.sub
                    /\ r.w.fs[obs] = [kind |-> "observation",
                                      location |-> [scheme |-> td.scheme, file |-> td.file]]
                    /\ test.exc = NoExc
                    /\ "read_observation" \in Range(test.w.trace)

\* run_test_offline has just run the test of a descriptor on the observation
\* beside it
C14_Witness ==
    /\ last.op = "run_test_offline"
    /\ last.exc = NoExc
    /\ \E p \in FilesOfKind("json") :
          /\ p.folder = last.ret.folder
          /\ fs[ObservationOf(fs, p)].kind = "observation"

-----------------------------------------------------------------------------
(* run_test_offline *)

\* what run_test_offline does after its file check
RunEvents == {"import_module", "read_observation", "judge", "write_result"}

\* paths that name no file: a path that does not exist, or a directory
NotFiles == {MissingPath} \cup FilesOfKind("dir")

\* C15: given a test_config_file that is not an existing file,
\* run_test_offline raises the configuration-file error and has loaded no
\* test, executed nothing and written nothing.
C15_ConfigNotFound ==
    \A model \in ModelObjects, test_config_file \in NotFiles, env \in RunEnvs :
        LET r == run_test_offline(World, model, test_config_file, env)
        IN /\ r.exc = ConfigNotFoundError
           /\ Range(r.w.trace) \cap RunEvents = {}
           /\ r.w.fs = fs
           /\ r.w.now = now

\* run_test_offline has just refused a path, with descriptors on disk
C15_Witness ==
    /\ last.op = "run_test_offline"
    /\ last.exc = ConfigNotFoundError
    /\ FilesOfKind("json") # {}

\* objects that are no sciunit.Model
NotModels == {m \in ModelObjects : m.cls # "sciunit.Model"}

\* C16: given a model that is no sciunit.Model, run_test_offline never calls
\* judge and writes nothing, whatever the path and the environment; when the
\* descriptor exists and its test loads, the call raises the TypeError of the
\* model check.
C16_NotAModel ==
    \A model \in NotModels, test_config_file \in FilesOfKind("json") \cup NotFiles,
       env \in RunEnvs :
        LET r == run_test_offline(World, model, test_config_file, env)
        IN /\ r.exc # NoExc
           /\ Range(r.w.trace) \cap {"judge", "write_result"} = {}
           /\ r.w.fs = fs
           /\ "read_observation" \in Range(r.w.trace)
                => r.exc = ModelTypeError /\ r.exc.cls = "TypeError"
           /\ (isfile(fs, test_config_file) /\ env.fail # "import_module")
                => "read_observation" \in Range(r.w.trace)

\* run_test_offline has just refused an object that is no model, after it
\* loaded the test of a descriptor
C16_Witness ==
    /\ last.op = "run_test_offline"
    /\ last.exc = ModelTypeError
    /\ FilesOfKind("pkl") = {}

\* sciunit models
SciunitModels == ModelObjects \ NotModels

\* environments in which the test raises while it judges
RaisingEnvs == {Env(TRUE, "", JudgeRaises, d) : d \in 0..MaxJudge}

\* C17: when the test raises during judge, run_test_offline raises that same
\* error, and persists nothing: no result file is written and no results
\* directory is made.
C17_TestErrorPropagates ==
    \A model \in SciunitModels, test_config_file \in FilesOfKind("json"),
       env \in RaisingEnvs :
        LET r == run_test_offline(World, model, test_config_file, env)
        IN /\ "judge" \in Range(r.w.trace)
           /\ r.exc = TestExecutionError
           /\ "write_result" \notin Range(r.w.trace)
           /\ r.w.fs = fs

\* run_test_offline has just passed on the error of a test, and the
\* descriptor's directory has no results
C17_Witness ==
    /\ last.op = "run_test_offline"
    /\ last.exc = TestExecutionError
    /\ FilesOfKind("json") # {}
    /\ FilesOfKind("pkl") = {}

\* C18: on the score run_test_offline persists, runtime is "<n> s" where n is
\* the least whole number of seconds that is not less than the time between
\* the instant taken before judge and the instant taken after it (n >= 0),
\* and exec_timestamp is the instant taken after it.
C18_RuntimeAndTimestamp ==
    \A model \in SciunitModels, test_config_file \in FilesOfKind("json"),
       env \in Judgements :
        LET r == run_test_offline(World, model, test_config_file, env)
            t_start == now
            t_end == now + env.dur
        IN /\ r.exc = NoExc
           /\ LET score == pickle_load(r.w.fs[r.ret])
                  n == score.runtime[1]
              IN /\ score.runtime = <<n, " s">>
                 /\ n \in Nat
                 /\ n * TicksPerSecond >= t_end - t_start
                 /\ n > 0 => (n - 1) * TicksPerSecond < t_end - t_start
                 /\ score.exec_timestamp = t_end
                 /\ r.w.now = t_end

\* a test that took a fraction of a second was persisted with runtime "1 s"
\* and the instant of its completion
C18_Witness ==
    /\ last.op = "run_test_offline"
    /\ last.exc = NoExc
    /\ fs[last.ret].score.runtime = <<1, " s">>
    /\ fs[last.ret].score.exec_timestamp = now
    /\ TicksPerSecond > 1

\* C19: on success run_test_offline has written the score to
\* <descriptor directory>/results/result__<model name>__<timestamp>, the
\* timestamp being the second of the write; the results directory exists
\* afterwards, whether or not it did before; nothing else on disk changed;
\* and the value returned is the path of that file.
C19_ResultPath ==
    \A model \in SciunitModels, test_config_file \in FilesOfKind("json"),
       env \in Judgements :
        LET r == run_test_offline(World, model, test_config_file, env)
            results_dir == Directory(test_config_file.folder, "results")
            written == Path(test_config_file.folder, "results",
                            <<"result__", model.name, strftime(now + env.dur)>>)
        IN /\ r.exc = NoExc
           /\ r.ret = written
           /\ isfile(r.w.fs, written)
           /\ r.w.fs[written].kind = "pkl"
           /\ pickle_load(r.w.fs[written]).model = model
           /\ pickle_load(r.w.fs[written]).score = env.judge
           /\ results_dir \in DOMAIN r.w.fs /\ r.w.fs[results_dir].kind = "dir"
           /\ DOMAIN r.w.fs = DOMAIN fs \cup {results_dir, written}
           /\ \A p \in DOMAIN fs \ {written} : r.w.fs[p] = fs[p]

\* run_test_offline has just returned the path of the file it wrote, in a
\* results directory it had to make
C19_Witness ==
    /\ last.op = "run_test_offline"
    /\ last.exc = NoExc
    /\ last.ret.sub = "results"
    /\ fs[last.ret].kind = "pkl"
    /\ FilesOfKind("pkl") = {last.ret}

-----------------------------------------------------------------------------
(* upload_test_result *)

\* what upload_test_result does with the remote service
RemoteEvents == Requests \cup {"authenticate", "from_existing"}

\* C20: given a test_result_file that is not an existing file,
\* upload_test_result (registering, as by default) raises the result-file
\* error, has built no client and sent no request, and the catalog is as it
\* was.
C20_ResultNotFound ==
    \A client_obj \in ClientObjects, test_result_file \in NotFiles,
       storage_collab_id \in StorageCollabs, env \in UploadEnvs :
        LET r == upload_test_result(World, client_obj, test_result_file,
                                    storage_collab_id, TRUE, env)
        IN /\ r.exc = ResultNotFoundError
           /\ Range(r.w.trace) \cap RemoteEvents = {}
           /\ r.w.results = results
           /\ r.w.model_instances = model_instances
           /\ r.w.fs = fs

\* upload_test_result has just refused a path, with a result registered
\* earlier still the only one
C20_Witness ==
    /\ last.op = "upload_test_result"
    /\ last.exc = ResultNotFoundError
    /\ Len(results) = 1

\* the host collab of the model that owns the model instance
HostCollabOf(model_instance_uuid) ==
    Models[CHOOSE m \in DOMAIN Models : Models[m].instance = model_instance_uuid].collab_id

\* C21: the storage location of an upload is the storage_collab_id given when
\* it is not empty, and else the host collab of the model that owns the
\* score's model instance; that one value is the project written on the
\* score, the project of the registered result and the collab of the storage
\* folder the result is registered with.
C21_StorageLocation ==
    /\ \A i \in DOMAIN results : results[i].project = results[i].data_store.collab_id
    /\ \A test_result_file \in FilesOfKind("pkl"), client_obj \in ClientObjects,
          storage_collab_id \in StorageCollabs :
          LET score == pickle_load(fs[test_result_file])
              r == upload_test_result(World, client_obj, test_result_file,
                                      storage_collab_id, TRUE, NoFault)
              storage == IF storage_collab_id # "" THEN storage_collab_id
                         ELSE HostCollabOf(InstanceOf(score))
          IN r.exc = NoExc
              => LET registered == r.w.results[Len(r.w.results)]
                 IN /\ r.ret[2].related_data.project = storage
                    /\ registered.project = storage
                    /\ registered.data_store.collab_id = storage

\* one result was registered in the collab the caller named and another, for
\* which no collab was named, in the host collab of its model
C21_Witness ==
    /\ last.op \in {"upload_test_result", "run_test"}
    /\ last.exc = NoExc
    /\ \E i, j \in DOMAIN results :
          /\ results[i].project = "collab-9"
          /\ results[j].project = HostCollabOf(results[j].model_version_id)

-----------------------------------------------------------------------------
(* Naming the test *)

\* ways of naming a test with identifiers of several priorities at once
PriorityIdentifiers ==
    {Ident(i, t, a, v) : i \in {"", "TI1"}, t \in {"", "T1", "T2"},
                         a \in {"", "CDT-5", "FTP-1"}, v \in {"", "4.0"}}

\* the identifier of highest priority among those given, the others left out
\* (utils.py 97-103: instance id; else test id and version; else alias and
\* version)
HighestPriority(ident) ==
    IF ident.test_instance_id # ""
    THEN Ident(ident.test_instance_id, "", "", "")
    ELSE IF ident.test_id # ""
         THEN Ident("", ident.test_id, "", ident.test_version)
         ELSE Ident("", "", ident.test_alias, ident.test_version)

\* the latest instance of a test definition
LatestOf(test_id) ==
    CHOOSE i \in DOMAIN TestInstances :
        /\ TestInstances[i].test_definition_id = test_id
        /\ \A j \in DOMAIN TestInstances :
              TestInstances[j].test_definition_id = test_id
                  => TestInstances[j].timestamp <= TestInstances[i].timestamp

\* C22: prepare_run_test_offline resolves one test instance by the identifier
\* of highest priority among those given: test_instance_id; else test_id with
\* test_version; else test_alias with test_version. A call does what the call
\* with that identifier alone does, whatever identifiers of lower priority
\* come with it, and the descriptor it writes names the one instance that
\* identifier stands for (the latest one when no version is given).
C22_PriorityOrder ==
    \A ident \in PriorityIdentifiers, client_obj \in ClientObjects :
        LET top == HighestPriority(ident)
            r == prepare_run_test_offline(World, client_obj, ident.test_instance_id,
                                          ident.test_id, ident.test_alias,
                                          ident.test_version, NoParams, NoFault)
            alone == prepare_run_test_offline(World, client_obj, top.test_instance_id,
                                              top.test_id, top.test_alias,
                                              top.test_version, NoParams, NoFault)
        IN /\ r = alone
           /\ r.exc = NoExc
               => LET d == r.w.fs[r.ret].text
                      ti == TestInstances[d.test_instance_id]
                  IN /\ Cardinality(Positions(r.w.trace, "get_test_instance")) = 1
                     /\ d.test_id = ti.test_definition_id
                     /\ ident.test_instance_id # "" => d.test_instance_id = ident.test_instance_id
                     /\ (ident.test_instance_id = "" /\ ident.test_id # "")
                           => d.test_id = ident.test_id
                     /\ (ident.test_instance_id = "" /\ ident.test_id = "")
                           => TestDefinitions[d.test_id].alias = ident.test_alias
                     /\ (ident.test_instance_id = "" /\ ident.test_version # "")
                           => ti.version = ident.test_version
                     /\ (ident.test_instance_id = "" /\ ident.test_version = "")
                           => d.test_instance_id = LatestOf(d.test_id)

\* a descriptor was just written for the instance TI1 of the test T1, in a
\* state where the call naming TI1 together with the other test T2 succeeds
C22_Witness ==
    /\ last.op = "prepare_run_test_offline"
    /\ last.exc = NoExc
    /\ fs[last.ret].text.test_instance_id = "TI1"
    /\ fs[last.ret].text.test_id = "T1"
    /\ \E ident \in Identifiers :
          /\ ident.test_instance_id = "TI1" /\ ident.test_id = "T2"
          /\ prepare_run_test_offline(World, "client", ident.test_instance_id, ident.test_id,
                                      ident.test_alias, ident.test_version, NoParams,
                                      NoFault).exc = NoExc

-----------------------------------------------------------------------------
(* The client handle *)

\* the authentication server refuses every username and password
Refusing == Env(FALSE, "", DefaultScore, 0)

\* the call authenticated nobody: each of its catalog requests was sent
\* through a handle made from an existing one
Reused(r) ==
    /\ "authenticate" \notin Range(r.w.trace)
    /\ r.exc # AuthenticationError
    /\ \A i \in DOMAIN r.w.trace :
          r.w.trace[i] \in Requests
              => \E j \in 1..(i - 1) : r.w.trace[j] = "from_existing"

\* C23: given a client_obj, prepare_run_test_offline, upload_test_result and
\* run_test authenticate nobody with username and password: every catalog
\* request of the call is sent through a handle made from the given one, a
\* whole run_test makes its three handles that way, and the call does the
\* same whether or not the authentication server would accept the caller.
C23_ClientReused ==
    /\ \A ident \in Identifiers, params \in ParamSets, env \in PrepareEnvs :
          LET r == prepare_run_test_offline(World, "client", ident.test_instance_id,
                                            ident.test_id, ident.test_alias,
                                            ident.test_version, params, env)
          IN /\ Reused(r)
             /\ Cardinality(Positions(r.w.trace, "from_existing")) = 1
    /\ \A test_result_file \in FilesOfKind("pkl"), storage_collab_id \in StorageCollabs,
          env \in UploadEnvs :
          LET r == upload_test_result(World, "client", test_result_file,
                                      storage_collab_id, TRUE, env)
          IN /\ Reused(r)
             /\ env = Refusing
                   => r = upload_test_result(World, "client", test_result_file,
                                             storage_collab_id, TRUE, NoFault)
    /\ \A model \in ModelObjects, ident \in RunTestIdentifiers, env \in RunTestEnvs :
          LET r == run_test(World, model, ident, "", TRUE, "client", NoParams, env)
          IN /\ Reused(r)
             /\ r.exc = NoExc => Cardinality(Positions(r.w.trace, "from_existing")) = 3
             /\ env = Refusing
                   => r = run_test(World, model, ident, "", TRUE, "client", NoParams, NoFault)

\* run_test has just registered a result, and run again with a client_obj it
\* gets as far as the duplicate check though the authentication server
\* refuses the caller
C23_Witness ==
    /\ last.op = "run_test"
    /\ last.exc = NoExc
    /\ results # <<>>
    /\ \E model \in SciunitModels :
          LET r == run_test(World, model, Ident("TI1", "", "", ""), "", TRUE, "client",
                            NoParams, Refusing)
          IN /\ "list_results" \in Range(r.w.trace)
             /\ "authenticate" \notin Range(r.w.trace)

-----------------------------------------------------------------------------
(* generate_report *)

\* the interpreter the client runs under: the module imports for both
\* (utils.py 27-45)
PythonVersions == {2, 3}

\* the name is a builtin of Python 2 only (unicode at line 636, file at 680)
NameError(name) == Exc("NameError", name)

\* "_temp_" + str(result_ctr) and "_" + str(result_ctr)
TempTail(result_ctr) == <<"_temp_0", "_temp_1", "_temp_2">>[result_ctr + 1]

PartTail(result_ctr) == <<"_0", "_1", "_2">>[result_ctr + 1]

\* the folder ./report/ and the files of a report in it:
\* HBP_VF_Report_<stamp><tail>.pdf
ReportFolder == <<"report", 0>>

ReportFile(stamp, tail) == Path(ReportFolder, "", <<"HBP_VF_Report_", tail, stamp>>)

\* ./report/temp_<base>_<result_ctr>.pdf (line 692)
TempTxtFile(base, result_ctr) == Path(ReportFolder, "", <<"temp_", base, result_ctr>>)

Pdf(pages) == [kind |-> "pdf", pages |-> pages]

Page(kind, id, text) == [page |-> kind, id |-> id, text |-> text]

\* os.remove
Remove(files, p) == [q \in DOMAIN files \ {p} |-> files[q]]

\* a result of the catalog as get_result answers it; results_storage is
\* empty when the result was registered without files
ReportResult(n, results_storage) ==
    [id |-> uuid4(n), model_version_id |-> "MI1", test_code_id |-> "TI1",
     results_storage |-> results_storage]

\* the files under the results_storage of a result
StoredFiles ==
    <<[base |-> "figure", ext |-> ".pdf"], [base |-> "notes", ext |-> ".txt"],
      [base |-> "data", ext |-> ".csv"]>>

\* utils.py 530-537: the entries of result_list the catalog has a result for
FindResults(w, result_list, env) ==
    LET Valid(result_id) == \E i \in DOMAIN w.results : w.results[i].id = result_id
        asked == [w EXCEPT !.trace = @ \o [k \in DOMAIN result_list |-> "get_result"]]
    IN IF env.fail = "get_result" /\ result_list # <<>>
       THEN Raise(Emit(w, "get_result"), CatalogError("get_result"))
       ELSE Return(asked, SelectSeq(result_list, Valid))

\* result_data[result_id]: result["results"][0]
ResultOf(w, result_id) ==
    w.results[CHOOSE i \in DOMAIN w.results :
                  /\ w.results[i].id = result_id
                  /\ \A j \in 1..(i - 1) : w.results[j].id # result_id]

\* utils.py 548-594: the cover page, written to <report>_cover.pdf
WriteCover(w, stamp, result_list, valid_uuids) ==
    LET Invalid(result_id) == \A k \in DOMAIN valid_uuids : valid_uuids[k] # result_id
        cover == Page("cover", "", [valid |-> valid_uuids,
                                    invalid |-> SelectSeq(result_list, Invalid)])
    IN [w EXCEPT !.fs = Put(mkdir(@, ReportFolder, ""),
                            ReportFile(stamp, "_cover"), Pdf(<<cover>>))]

\* utils.py 604-664: the page of one result, from what the catalog says about
\* its model and its test
ResultInfo(w, result, python, env) ==
    The({IF model_instance_info.exc # NoExc THEN model_instance_info ELSE
    The({IF model_info.exc # NoExc THEN model_info ELSE
    The({IF test_instance_info.exc # NoExc THEN test_instance_info ELSE
    The({IF test_info.exc # NoExc THEN test_info
         ELSE IF python = 3 THEN Raise(test_info.w, NameError("unicode"))
         ELSE Return(test_info.w, <<Page("result", result.id, model_info.ret.name)>>)
         : test_info \in {get_test_definition(test_instance_info.w,
                                              test_instance_info.ret.test_definition_id, env)}})
         : test_instance_info \in {get_test_instance(model_info.w, result.test_code_id,
                                                     "", "", "", env)}})
         : model_info \in {get_model(model_instance_info.w,
                                     model_instance_info.ret.model_id, env)}})
         : model_instance_info \in {get_model_instance(w, result.model_version_id, env)}})

\* utils.py 674-695: the pages merged after the page of a result, one for each
\* stored .pdf, .txt or .json file
AdditionalPages(result_id, file_list) ==
    LET Merged(datafile) == datafile.ext \in {".pdf", ".txt", ".json"}
        merged == SelectSeq(file_list, Merged)
    IN [k \in DOMAIN merged |-> Page("file", result_id, merged[k].base)]

\* the temporary PDFs made of the stored .txt and .json files (lines 692-694)
TempTxtFiles(file_list, result_ctr) ==
    {TempTxtFile(file_list[k].base, result_ctr) :
        k \in {j \in DOMAIN file_list : file_list[j].ext \in {".txt", ".json"}}}

\* utils.py 598-701: one turn of the loop over valid_uuids; answers result_ctr
ResultPages(w, stamp, result_id, result_ctr, python, env) ==
    LET result == ResultOf(w, result_id)
        temp == ReportFile(stamp, TempTail(result_ctr))
        removed == {temp} \cup TempTxtFiles(StoredFiles, result_ctr)
    IN The({IF info.exc # NoExc THEN info ELSE
       The({IF result.results_storage = ""
            THEN Return([info.w EXCEPT !.fs = written], result_ctr)
            ELSE
       The({Return([Emit(info.w, "download_data_using_uuid") EXCEPT
                       !.fs = [q \in DOMAIN kept \ removed |-> kept[q]]],
                   result_ctr + 1)
            : kept \in {Put(written, ReportFile(stamp, PartTail(result_ctr)),
                            Pdf(info.ret \o AdditionalPages(result_id, StoredFiles)))}})
            : written \in {Put(info.w.fs, temp, Pdf(info.ret))}})
            : info \in {ResultInfo(w, result, python, env)}})

RECURSIVE ResultPagesFrom(_, _, _, _, _, _, _)
\* utils.py 598-701: the turns of the loop from the k-th valid uuid on,
\* stopped by the first error
ResultPagesFrom(w, stamp, valid_uuids, k, result_ctr, python, env) ==
    IF k > Len(valid_uuids) THEN Return(w, result_ctr)
    ELSE The({IF turn.exc # NoExc THEN turn
              ELSE ResultPagesFrom(turn.w, stamp, valid_uuids, k + 1, turn.ret, python, env)
              : turn \in {ResultPages(w, stamp, valid_uuids[k], result_ctr, python, env)}})

\* utils.py 595-701: result_ctr = 0 and the loop over valid_uuids
AllResultPages(w, stamp, valid_uuids, python, env) ==
    ResultPagesFrom(w, stamp, valid_uuids, 1, 0, python, env)

RECURSIVE MergedPages(_, _, _)
\* utils.py 703-708: the pages of the cover and of the first n merged PDFs
MergedPages(files, stamp, n) ==
    IF n = 0 THEN files[ReportFile(stamp, "_cover")].pages
    ELSE MergedPages(files, stamp, n - 1) \o files[ReportFile(stamp, PartTail(n - 1))].pages

\* utils.py 703-714: the cover and the result_ctr merged PDFs, in one report
CombineReport(w, stamp, result_ctr, only_combined, valid_uuids) ==
    LET cover == ReportFile(stamp, "_cover")
        part == [i \in 0..(result_ctr - 1) |-> ReportFile(stamp, PartTail(i))]
        kept == IF only_combined
                THEN Remove([q \in DOMAIN w.fs \ {part[i] : i \in DOMAIN part} |-> w.fs[q]],
                            cover)
                ELSE w.fs
        report_path == ReportFile(stamp, "")
    IN Return([w EXCEPT !.fs = Put(kept, report_path, Pdf(MergedPages(w.fs, stamp, result_ctr)))],
              <<valid_uuids, report_path>>)

\* utils.py 525-714
generate_report(w, result_list, only_combined, client_obj, python, env) ==
    The({IF model_catalog.exc # NoExc THEN model_catalog ELSE
    The({IF found.exc # NoExc THEN found ELSE
    The({IF pages.exc # NoExc THEN pages
         ELSE CombineReport(pages.w, strftime(found.w.now), pages.ret, only_combined,
                            found.ret)
         : pages \in {AllResultPages(WriteCover(found.w, strftime(found.w.now),
                                                result_list, found.ret),
                                     strftime(found.w.now), found.ret, python, env)}})
         : found \in {FindResults(Emit(model_catalog.w, "from_existing"), result_list, env)}})
         : model_catalog \in {NewClient(Emit(w, "generate_report"), client_obj, env)}})

\* the catalogs a report is asked of: up to two results, with or without files
ReportCatalogs ==
    {<<>>}
        \cup {<<ReportResult(1, s)>> : s \in {"", "storage-1"}}
        \cup {<<ReportResult(1, s), ReportResult(2, t)>> :
                 s \in {"", "storage-1"}, t \in {"", "storage-2"}}

\* the result_list of a call: up to two identifiers, known to the catalog or not
ResultLists ==
    LET ids == {"result-1", "result-2", "no-such-result"}
    IN {<<>>} \cup {<<a>> : a \in ids} \cup {<<a, b>> : a \in ids, b \in ids}

ReportEnvs == {NoFault, Refusing, Env(TRUE, "get_model", DefaultScore, 0)}

ReportInit ==
    /\ fs = [p \in {} |-> [kind |-> "dir"]]
    /\ results \in ReportCatalogs
    /\ model_instances = {"MI1"}
    /\ models = <<>>
    /\ now = 0
    /\ seed = 0
    /\ calls = 0
    /\ last = NoCall
    /\ returned_ids = <<>>

GenerateReport ==
    \E result_list \in ResultLists, only_combined \in BOOLEAN, client_obj \in ClientObjects,
       python \in PythonVersions, env \in ReportEnvs :
        LET r == generate_report(World, result_list, only_combined, client_obj, python, env)
        IN Commit("generate_report",
                  <<StepOf("generate_report",
                           [result_list |-> result_list, only_combined |-> only_combined], r)>>,
                  r)

ReportNext ==
    \/ Tick
    \/ GenerateReport

ReportSpec == ReportInit /\ [][ReportNext]_vars

\* C24: generate_report returns as valid UUIDs the entries of result_list the
\* catalog has a result for, in their order, and the combined report it
\* writes has the result page of every one of them; with only_combined False
\* the call leaves n+2 PDFs, n the number of valid UUIDs: the cover, the
\* combined report, and one PDF for each valid UUID.
C24_ReportOfValidResults ==
    (last.op = "generate_report" /\ last.exc = NoExc)
        => LET arg == last.steps[1].arg
               valid_uuids == last.ret[1]
               report_path == last.ret[2]
               Known(result_id) == \E i \in DOMAIN results : results[i].id = result_id
               PagesOf(p, result_id) ==
                   {k \in DOMAIN fs[p].pages :
                       fs[p].pages[k].page = "result" /\ fs[p].pages[k].id = result_id}
           IN /\ valid_uuids = SelectSeq(arg.result_list, Known)
              /\ isfile(fs, report_path)
              /\ \A k \in DOMAIN valid_uuids : PagesOf(report_path, valid_uuids[k]) # {}
              /\ (~arg.only_combined /\ calls = 1)
                    => /\ Cardinality(FilesOfKind("pdf")) = Len(valid_uuids) + 2
                       /\ \A k \in DOMAIN valid_uuids :
                             \E p \in FilesOfKind("pdf") \ {report_path} :
                                 PagesOf(p, valid_uuids[k]) # {}

-----------------------------------------------------------------------------
(* Model aliases in the catalog *)

\* the most models a caller registers
MaxModels == 3

\* aliases a caller asks for; "" is no alias (test_models.py 213-224)
Aliases == {"", "alias-A", "alias-B"}

ModelNames == {"Model", "Model_changed"}

\* the n-th identifier the catalog gives a model
ModelId(n) == <<"model-1", "model-2", "model-3", "model-4", "model-5">>[n]

\* the error of test_models.py 259
AliasExistsError == Exc("Exception", "already exists.")

\* the error of test_models.py 310
NoModelIdError == Exc("Exception", "Model ID needs to be provided for editing a model.")

\* the models of the catalog that hold the alias
HoldersOf(catalog, alias) == {i \in DOMAIN catalog : catalog[i].alias = alias}

\* an edit_model that takes any alias
edit_model_AnyAlias(catalog, model_id, name, alias) ==
    IF model_id = ""
    THEN [models |-> catalog, exc |-> NoModelIdError, ret |-> None]
    ELSE LET i == CHOOSE k \in DOMAIN catalog : catalog[k].id = model_id
         IN [models |-> [catalog EXCEPT ![i].name = name, ![i].alias = alias],
             exc |-> NoExc, ret |-> model_id]

\* model_catalog.register_model(name=..., alias=...): the new model's id, or
\* the error that the alias already exists
register_model(catalog, name, alias) ==
    IF alias # "" /\ HoldersOf(catalog, alias) # {}
    THEN [models |-> catalog, exc |-> AliasExistsError, ret |-> None]
    ELSE LET model_id == ModelId(Len(catalog) + 1)
         IN [models |-> Append(catalog, [id |-> model_id, name |-> name, alias |-> alias]),
             exc |-> NoExc, ret |-> model_id]

\* model_catalog.edit_model(model_id=..., name=..., alias=...)
edit_model(catalog, model_id, name, alias) ==
    IF model_id = ""
    THEN [models |-> catalog, exc |-> NoModelIdError, ret |-> None]
    ELSE LET i == CHOOSE k \in DOMAIN catalog : catalog[k].id = model_id
         IN IF alias # "" /\ HoldersOf(catalog, alias) \ {i} # {}
            THEN [models |-> catalog, exc |-> AliasExistsError, ret |-> None]
            ELSE [models |-> [catalog EXCEPT ![i].name = name, ![i].alias = alias],
                  exc |-> NoExc, ret |-> model_id]

CatalogCall(op, r) ==
    /\ models' = r.models
    /\ last' = [op |-> op, steps |-> <<>>, entered |-> <<>>, exc |-> r.exc, ret |-> r.ret]
    /\ UNCHANGED <<fs, results, model_instances, now, seed, calls, returned_ids>>

RegisterModel ==
    /\ Len(models) < MaxModels
    /\ \E name \in ModelNames, alias \in Aliases :
          CatalogCall("register_model", register_model(models, name, alias))

EditModel ==
    \E model_id \in {""} \cup {models[i].id : i \in DOMAIN models},
       name \in ModelNames, alias \in Aliases :
        CatalogCall("edit_model", edit_model(models, model_id, name, alias))

CatalogNext ==
    \/ RegisterModel
    \/ EditModel

CatalogSpec == Init /\ [][CatalogNext]_vars

-----------------------------------------------------------------------------
(* register_result = False *)

\* C26: with register_result False upload_test_result returns (None, None)
\* at once, whatever the path and the environment: it does not look for the
\* result file nor read it, makes no client, sends no request, and registers
\* nothing. A run_test with register_result False still prepares and runs the
\* test, leaves the result file on disk and returns (None, None).
C26_NoRegistration ==
    /\ \A test_result_file \in FilesOfKind("pkl") \cup NotFiles, client_obj \in ClientObjects,
          storage_collab_id \in StorageCollabs, env \in UploadEnvs :
          LET r == upload_test_result(World, client_obj, test_result_file,
                                      storage_collab_id, FALSE, env)
          IN /\ r.exc = NoExc
             /\ r.ret = <<None, None>>
             /\ Range(r.w.trace) \cap (RemoteEvents \cup {"read_result"}) = {}
             /\ r.w.fs = fs
             /\ r.w.results = results
             /\ r.w.model_instances = model_instances
    /\ \A model \in SciunitModels, ident \in RunTestIdentifiers, client_obj \in ClientObjects,
          env \in Judgements :
          LET r == run_test(World, model, ident, "", FALSE, client_obj, NoParams, env)
              registering == run_test(World, model, ident, "", TRUE, client_obj, NoParams, env)
          IN /\ Len(r.steps) = 3 <=> r.exc = NoExc
             /\ Len(r.steps) < 3 => r = registering
             /\ ident = Ident("TI1", "", "", "") => r.exc = NoExc
             /\ r.exc = NoExc
                   => /\ r.ret = <<None, None>>
                      /\ {"write_config", "judge", "write_result"} \subseteq Range(r.w.trace)
                      /\ r.steps[3].arg = r.steps[2].ret
                      /\ isfile(r.w.fs, r.steps[3].arg)
                      /\ pickle_load(r.w.fs[r.steps[3].arg]).score = env.judge
                      /\ r.w.results = results
                      /\ "register_result" \notin Range(r.w.trace)

\* run_test has just run a test without registering: the result file is on
\* disk and the catalog has no result
C26_Witness ==
    /\ last.op = "run_test"
    /\ last.exc = NoExc
    /\ last.ret[1] = None
    /\ Len(last.steps) = 3
    /\ isfile(fs, last.steps[3].arg)
    /\ results = <<>>

-----------------------------------------------------------------------------
(* The identifier check and the remote service *)

\* C27: a prepare_run_test_offline call that fails for lack of a test
\* identifier has had nothing to do with the remote service: it has
\* authenticated nobody with username and password and has sent no catalog
\* request when the identifier check rejects it.
C27_RejectedBeforeRemote ==
    \A client_obj \in ClientObjects, test_version \in {"", "5.0"}, params \in ParamSets,
       env \in PrepareEnvs :
        LET r == prepare_run_test_offline(World, client_obj, "", "", "", test_version,
                                          params, env)
        IN r.exc = NoTestIdError
            => Range(r.w.trace) \cap ({"authenticate"} \cup Requests) = {}

-----------------------------------------------------------------------------
(* Result files of successive runs *)

\* C28: a successful run_test_offline overwrites the persisted score of no
\* earlier run: for every result file an earlier run wrote for the same model
\* name under the same descriptor directory, the path the new run returns is
\* another one, and the earlier file holds afterwards what it held before.
C28_NoOverwrite ==
    \A model \in SciunitModels, test_config_file \in FilesOfKind("json"), env \in Judgements :
        LET r == run_test_offline(World, model, test_config_file, env)
        IN r.exc = NoExc
            => \A earlier \in FilesOfKind("pkl") :
                  (/\ earlier.folder = test_config_file.folder
                   /\ pickle_load(fs[earlier]).model.name = model.name)
                      => /\ r.ret # earlier
                         /\ r.w.fs[earlier] = fs[earlier]

====
